---- MODULE Spec2Model ----
(***************************************************************************)
(* The authenticated HTTP client of the admin panel: the token holder, the *)
(* request interceptor, the response interceptor that serialises refresh   *)
(* calls (src/lib/secureAxios.ts), the auth store (src/store/authStore.ts) *)
(* and the session bootstrap of AuthProvider.                              *)
(*                                                                         *)
(* The runtime is a single JavaScript thread.  One step of the model is    *)
(* one task of the event loop together with the microtasks it schedules:   *)
(* a UI event that issues a request, or the arrival of one network         *)
(* response with the interceptor, the resumed async function and the       *)
(* caller's continuation that run before the next task.                    *)
(***************************************************************************)
EXTENDS Integers, Sequences, FiniteSets, TLC

\* ------------------------------------------------------------------ bounds
MaxReqs == 2        \* logical requests the UI issues
MaxMounts == 1      \* runs of the AuthProvider effect
MaxTok == 2         \* access tokens the server issues

\* --------------------------------------------------------------- constants
Null == 0           \* `null` of `string | null` / `AuthUser | null`
SuperAdmin == 1     \* the one identity the refresh endpoint returns
DeviceId == 1       \* the identifier generateId returns first
StoredId == 100     \* an identifier an earlier visit left under gm_device_id

ReqIds == 1..MaxReqs
BootIds == (MaxReqs + 1)..(MaxReqs + MaxMounts)
AllIds == 1..(MaxReqs + MaxMounts)

\* URLs are sequences of path segments; String.includes is containment of a
\* contiguous run of segments.
LoginPath == <<"auth", "super-admin", "login">>
RefreshPath == <<"auth", "super-admin", "refresh">>
MfaPath == <<"auth", "super-admin", "mfa">>
StepUpPath == <<"auth", "super-admin", "step-up">>

RefreshUrl == <<"auth", "super-admin", "refresh">>
LoginUrl == <<"auth", "super-admin", "login">>
LogoutUrl == <<"auth", "super-admin", "logout">>
MfaStatusUrl == <<"auth", "super-admin", "mfa", "status">>
MfaSetupUrl == <<"auth", "super-admin", "mfa", "setup">>
StepUpVerifyUrl == <<"auth", "super-admin", "step-up", "verify-mfa">>
SessionsUrl == <<"auth", "super-admin", "sessions">>
OverviewUrl == <<"admin-monitor", "overview">>
NoUrl == <<>>

\* The requests of the screens behind the route guard that the model issues:
\* one that isAuthEndpoint excludes from the refresh path and one it does not.
GuardedUrls == {SessionsUrl, MfaStatusUrl}

includes(url, path) ==
    \E k \in 0..(Len(url) - Len(path)) : SubSeq(url, k + 1, k + Len(path)) = path

\* isAuthEndpoint that knows the login path only.
isAuthEndpointLoginOnly(url) ==
    IF url = NoUrl THEN FALSE ELSE includes(url, LoginPath)

\* isAuthEndpoint that takes every URL under /auth/super-admin for an auth
\* endpoint.
isAuthEndpointAnyAuthPath(url) ==
    IF url = NoUrl THEN FALSE ELSE includes(url, <<"auth", "super-admin">>)

isAuthEndpoint(url) ==
    IF url = NoUrl THEN FALSE
    ELSE \/ includes(url, LoginPath)
         \/ includes(url, RefreshPath)
         \/ includes(url, MfaPath)
         \/ includes(url, StepUpPath)

\* A response as the interceptor sees it: status 0 stands for "no response"
\* (network error); stepUp is `typeof data === 'object' && data.stepUp`.
Resp(status, stepUp) == [status |-> status, stepUp |-> stepUp]
Ok200 == Resp(200, FALSE)
NetworkError == Resp(0, FALSE)
Unauthorized == Resp(401, FALSE)
StepUp403 == Resp(403, TRUE)
Forbidden == Resp(403, FALSE)
ErrorResponses == {NetworkError, Unauthorized, StepUp403, Forbidden}

\* the code runs in the browser: every caller of `api` is an effect or an
\* event handler of a client component
windowDefined == TRUE

\* Request bodies: none (get), the empty object, the login payload.
NoBody == "none"
EmptyBody == "{}"
LoginPayload == "credentials"
MfaCode == "code"

\* navigator.userAgent, as the set of the substrings buildLabel tests for that
\* it contains: a desktop browser that names no platform buildLabel knows, and
\* an Android phone (its user agent names Linux too).
UserAgents == {{}, {"Android", "Linux"}}

\* buildLabel(): the first test that matches decides.
DeviceLabel == "Unknown device"
buildLabel(ua) ==
    IF ua \cap {"iPhone", "iPad", "iPod"} # {} THEN "iOS device"
    ELSE IF "Android" \in ua THEN "Android device"
    ELSE IF "Windows NT" \in ua THEN "Windows desktop"
    ELSE IF "Mac OS X" \in ua THEN "macOS desktop"
    ELSE IF "Linux" \in ua THEN "Linux desktop"
    ELSE DeviceLabel

\* generateId(): an identifier no earlier call returned; n calls were made.
generateId(n) == DeviceId + n

\* The x-device-id and x-device-label headers of a config; none attached.
NoDevice == [id |-> Null, label |-> ""]

VARIABLES
    accessToken,    \* secureAxios: let accessToken
    isRefreshing,   \* secureAxios: let isRefreshing
    refreshQueue,   \* secureAxios: let refreshQueue (the ids of the queued requests)
    reqs,           \* the request configs and their callers' promises
    store,          \* useAuthStore state
    mounted,        \* the AuthProvider effect is active
    phase,          \* LoginForm: PASSWORD | MFA
    issued,         \* access tokens the server has issued
    event,          \* what the last task did: the promise it settled (request,
                    \* URL, outcome) and its assignments to window.location.href
    device          \* deviceInfo: cachedDeviceId, cachedLabel, with
                    \* localStorage['gm_device_id'], navigator.userAgent and the
                    \* number of calls of generateId

vars == <<accessToken, isRefreshing, refreshQueue, reqs, store, mounted, phase,
          issued, event, device>>

\* ------------------------------------------------------------- deviceInfo
\* The module as loaded in a browser whose storage holds `stored` (Null: no
\* identifier) and whose user agent is `ua`.
NoLabel == ""
Loaded(stored, ua) ==
    [cachedDeviceId |-> Null, cachedLabel |-> NoLabel, storage |-> stored,
     userAgent |-> ua, generated |-> 0]

\* getDeviceInfo that consults the storage at every call.
cacheDeviceInfoUncached(d) ==
    LET id == IF d.storage # Null THEN d.storage ELSE generateId(d.generated)
    IN [d EXCEPT !.cachedDeviceId = id,
                 !.storage = id,
                 !.generated = IF d.storage # Null THEN @ ELSE @ + 1,
                 !.cachedLabel = buildLabel(d.userAgent)]

\* getDeviceInfo() in the browser: what it leaves in the module and in the
\* storage.
cacheDeviceInfo(d) ==
    LET withId ==
            IF d.cachedDeviceId # Null THEN d
            ELSE IF d.storage # Null THEN [d EXCEPT !.cachedDeviceId = d.storage]
            ELSE [d EXCEPT !.cachedDeviceId = generateId(d.generated),
                           !.storage = generateId(d.generated),
                           !.generated = @ + 1]
    IN IF withId.cachedLabel # NoLabel THEN withId
       ELSE [withId EXCEPT !.cachedLabel = buildLabel(d.userAgent)]

\* getDeviceInfo(): what it returns; no identifier outside the browser.
getDeviceInfo(window) ==
    IF ~window THEN [deviceId |-> Null, deviceLabel |-> "SSR"]
    ELSE [deviceId |-> cacheDeviceInfo(device).cachedDeviceId,
          deviceLabel |-> cacheDeviceInfo(device).cachedLabel]

\* The module after the calls of getDeviceInfo a task makes.
called(window) == IF window THEN cacheDeviceInfo(device) ELSE device

NoOutcome == [of |-> "none", status |-> 0, stepUp |-> FALSE]
Resolved == [of |-> "request", status |-> 200, stepUp |-> FALSE]
Rejected(of, resp) == [of |-> of, status |-> resp.status, stepUp |-> resp.stepUp]

\* RetriableRequestConfig plus the promise its caller awaits.
\*   st       idle | sent | awaitRefresh | queued | settled
\*   retry    _retry
\*   hdr      headers.Authorization (the token after "Bearer "), Null if absent
\*   method, data   the method and the body of the call
\*   dev      headers x-device-id and x-device-label
\*   refresh  the refresh call the handler of the request awaits: its
\*            Authorization and device headers
\*   sends    times the request left for the network
\* Of a settled request only _retry and sends are kept.
\*   peer401  a request that was in flight with it, carrying the same token,
\*            has received a token-expired 401
\*   cancelled  `cancelled` of the bootstrap run that awaits the request
NoEvent == [id |-> 0, url |-> NoUrl, outcome |-> NoOutcome, redirects |-> 0]
Settled(i, url, outcome, redirects) ==
    [id |-> i, url |-> url, outcome |-> outcome, redirects |-> redirects]

NoRefreshCall == [sends |-> 0, hdr |-> Null, dev |-> NoDevice]

NewRequest ==
    [url |-> NoUrl, st |-> "idle", retry |-> FALSE, hdr |-> Null, sends |-> 0,
     peer401 |-> FALSE, cancelled |-> FALSE, method |-> "none", data |-> NoBody,
     dev |-> NoDevice, refresh |-> NoRefreshCall]

\* api.get(url) / api.post(url, data): the config of a call.
Call(method, url, data) ==
    [NewRequest EXCEPT !.method = method, !.url = url, !.data = data]

ClientInit ==
    /\ accessToken = Null
    /\ isRefreshing = FALSE
    /\ refreshQueue = <<>>
    /\ reqs = [i \in AllIds |-> NewRequest]
    /\ store = [user |-> Null, accessToken |-> Null, isLoading |-> TRUE,
                hasBootstrapped |-> FALSE]
    /\ mounted = FALSE
    /\ phase = "PASSWORD"
    /\ issued = 0
    /\ event = NoEvent

\* The page loads in a browser profile that has not been here before.
Init == ClientInit /\ device = Loaded(Null, {})

\* The page loads in any browser profile.
DeviceInit ==
    /\ ClientInit
    /\ \E stored \in {Null, StoredId}, ua \in UserAgents : device = Loaded(stored, ua)

\* ------------------------------------------------------------ token holder
\* tokenBridge.setAccessToken that keeps the token when it is given null.
setAccessTokenIgnoresNull(holder, token) == IF token = Null THEN holder ELSE token

\* tokenBridge.setAccessToken(token): the holder after the call.
setAccessToken(holder, token) == token

\* tokenBridge.getAccessToken(): what the call returns.
getAccessToken(holder) == holder

\* The client state the store operations act on: the token holder and the
\* zustand state.
Client == [holder |-> accessToken, store |-> store]

setAuth(c, user, token) ==
    [holder |-> setAccessToken(c.holder, token),
     store |-> [user |-> user, accessToken |-> token, isLoading |-> FALSE,
                hasBootstrapped |-> TRUE]]

clearAuth(c) ==
    [holder |-> setAccessToken(c.holder, Null),
     store |-> [user |-> Null, accessToken |-> Null, isLoading |-> FALSE,
                hasBootstrapped |-> TRUE]]

\* setLoading that starts the bootstrap over when the value is true.
setLoadingResetsBootstrap(c, value) ==
    [holder |-> c.holder,
     store |-> [c.store EXCEPT !.isLoading = value,
                               !.hasBootstrapped = IF value THEN FALSE ELSE @]]

setLoading(c, value) ==
    [holder |-> c.holder, store |-> [c.store EXCEPT !.isLoading = value]]

\* ------------------------------------------------------ request interceptor
\* requestInterceptor that attaches no token.
requestInterceptorNoToken(hdr, token) == hdr

\* The Authorization header after the request interceptor ran with `token`
\* in the token holder.
requestInterceptor(hdr, token) == IF token # Null THEN token ELSE hdr

\* The device headers after the request interceptor ran.
deviceHeaders(dev, window) ==
    LET info == getDeviceInfo(window)
    IN IF window /\ info.deviceId # Null
       THEN [id |-> info.deviceId,
             label |-> IF info.deviceLabel # "" THEN info.deviceLabel ELSE dev.label]
       ELSE dev

\* api.post('/auth/super-admin/refresh', {}) of the rejection handler leaves
\* for the network.
SendRefresh(token) ==
    [sends |-> 1, hdr |-> requestInterceptor(Null, token),
     dev |-> deviceHeaders(NoDevice, windowDefined)]

\* api(config): the request leaves for the network.
Send(r, token) ==
    [r EXCEPT !.st = "sent", !.sends = @ + 1, !.hdr = requestInterceptor(@, token),
              !.dev = deviceHeaders(@, windowDefined)]

\* ---------------------------------------------------------------- callers
Caller(i) ==
    IF i \in BootIds THEN "bootstrap"
    ELSE IF reqs[i].url = LoginUrl THEN "login"
    ELSE IF reqs[i].url = LogoutUrl THEN "logout"
    ELSE "ui"

\* bootstrapSettled whose catch does not call clearAuth.
bootstrapSettledNoClear(c, cancelled, ok, token) ==
    IF cancelled THEN c
    ELSE setLoading(IF ok THEN setAuth(c, SuperAdmin, token) ELSE c, FALSE)

\* bootstrapSettled without the tests of `cancelled`.
bootstrapSettledIgnoresCancelled(c, cancelled, ok, token) ==
    setLoading(IF ok THEN setAuth(c, SuperAdmin, token) ELSE clearAuth(c), FALSE)

\* AuthProvider.bootstrap after `await api.post(refresh)`: the try body, the
\* catch and the finally, all guarded by `cancelled`.
bootstrapSettled(c, cancelled, ok, token) ==
    IF cancelled THEN c
    ELSE setLoading(IF ok THEN setAuth(c, SuperAdmin, token) ELSE clearAuth(c), FALSE)

\* LoginForm.handleSubmit after `await api.post(login)` answered without
\* mfaRequired, or failed.
loginSettled(c, ok, token) == IF ok THEN setAuth(c, SuperAdmin, token) ELSE c

\* logoutSettled without clearAuth.
logoutSettledKeeps(c) == c

\* LogoutButton.handleLogout after `await api.post(logout)`: the finally.
logoutSettled(c) == clearAuth(c)

\* What the caller of request i runs when its promise settles.
Continuation(i, c, ok, token) ==
    CASE Caller(i) = "bootstrap" -> bootstrapSettled(c, reqs[i].cancelled, ok, token)
      [] Caller(i) = "login" -> loginSettled(c, ok, token)
      [] Caller(i) = "logout" -> logoutSettled(c)
      [] OTHER -> c

\* The promise of the request settles; its config is dropped.
Done(r) == [NewRequest EXCEPT !.st = "settled", !.retry = r.retry, !.sends = r.sends]

\* user && user.role === 'super_admin': SuperAdmin is the one identity with
\* that role.
isSuperAdmin(user) == user # Null /\ user = SuperAdmin

\* GodLayout that renders its children while the store is loading.
contentRenderedWhileLoading == store.hasBootstrapped /\ isSuperAdmin(store.user)

\* The protected layout renders its children.
contentRendered ==
    store.hasBootstrapped /\ ~store.isLoading /\ isSuperAdmin(store.user)

\* The effect of the protected layout calls router.replace('/login').
layoutRedirectsToLogin == store.hasBootstrapped /\ ~isSuperAdmin(store.user)

\* The step-up page renders its form.
stepUpFormRendered == store.hasBootstrapped /\ ~store.isLoading /\ store.user # Null

\* The effect of the step-up page calls router.replace('/login').
stepUpRedirectsToLogin == store.hasBootstrapped /\ store.user = Null

\* ------------------------------------------------------------- UI events
\* IssueRequest whose request interceptor empties the token holder after it
\* has read it.
IssueRequestTakesToken(i, url) ==
    /\ contentRendered
    /\ reqs[i].st = "idle"
    /\ \A j \in ReqIds : j < i => reqs[j].st # "idle"
    /\ reqs' = [reqs EXCEPT ![i] = Send(Call("get", url, NoBody),
                                    getAccessToken(accessToken))]
    /\ accessToken' = Null
    /\ event' = NoEvent
    /\ UNCHANGED <<isRefreshing, refreshQueue, store, mounted, phase, issued>>
    /\ device' = called(windowDefined)

\* A screen behind the route guard calls api.get/post/patch(url).
IssueRequest(i, url) ==
    /\ contentRendered
    /\ reqs[i].st = "idle"
    /\ \A j \in ReqIds : j < i => reqs[j].st # "idle"
    /\ reqs' = [reqs EXCEPT ![i] = Send(Call("get", url, NoBody),
                                    getAccessToken(accessToken))]
    /\ event' = NoEvent
    /\ UNCHANGED <<accessToken, isRefreshing, refreshQueue, store, mounted, phase, issued>>
    /\ device' = called(windowDefined)

\* LoginForm.handleSubmit up to its await: a user event, so the effect of the
\* root layout's AuthProvider has run; the button is disabled while a
\* submission is in flight.
SubmitLogin(i) ==
    /\ \E b \in BootIds : reqs[b].st # "idle"
    /\ \A j \in ReqIds : reqs[j].url # LoginUrl
    /\ reqs[i].st = "idle"
    /\ \A j \in ReqIds : j < i => reqs[j].st # "idle"
    /\ reqs' = [reqs EXCEPT ![i] = Send(Call("post", LoginUrl, LoginPayload),
                                    getAccessToken(accessToken))]
    /\ event' = NoEvent
    /\ UNCHANGED <<accessToken, isRefreshing, refreshQueue, store, mounted, phase, issued>>
    /\ device' = called(windowDefined)

\* LogoutButton.handleLogout up to its await: the button is in the protected
\* layout and is disabled while a logout is in flight.
Logout(i) ==
    /\ contentRendered
    /\ \A j \in ReqIds : reqs[j].url # LogoutUrl
    /\ reqs[i].st = "idle"
    /\ \A j \in ReqIds : j < i => reqs[j].st # "idle"
    /\ reqs' = [reqs EXCEPT ![i] = Send(Call("post", LogoutUrl, EmptyBody),
                                    getAccessToken(accessToken))]
    /\ event' = NoEvent
    /\ UNCHANGED <<accessToken, isRefreshing, refreshQueue, store, mounted, phase, issued>>
    /\ device' = called(windowDefined)

\* The user, or another tab of the origin, removes gm_device_id from the
\* storage while the page is open.
ClearStorage ==
    /\ device.storage # Null
    /\ device' = [device EXCEPT !.storage = Null]
    /\ event' = NoEvent
    /\ UNCHANGED <<accessToken, isRefreshing, refreshQueue, reqs, store, mounted, phase,
                   issued>>

\* StepUpPage.handleSubmit up to its await: the form is rendered.
SubmitStepUp(i) ==
    /\ stepUpFormRendered
    /\ \A j \in ReqIds : reqs[j].url # StepUpVerifyUrl
    /\ reqs[i].st = "idle"
    /\ \A j \in ReqIds : j < i => reqs[j].st # "idle"
    /\ reqs' = [reqs EXCEPT ![i] = Send(Call("post", StepUpVerifyUrl, MfaCode),
                                    getAccessToken(accessToken))]
    /\ event' = NoEvent
    /\ UNCHANGED <<accessToken, isRefreshing, refreshQueue, store, mounted, phase, issued>>
    /\ device' = called(windowDefined)

\* The AuthProvider effect runs: bootstrap() up to its await.
Mount(i) ==
    /\ ~mounted
    /\ reqs[i].st = "idle"
    /\ \A j \in BootIds : j < i => reqs[j].st # "idle"
    /\ mounted' = TRUE
    /\ store' = setLoading(Client, TRUE).store
    /\ reqs' = [reqs EXCEPT ![i] = Send(Call("post", RefreshUrl, EmptyBody),
                                    getAccessToken(accessToken))]
    /\ event' = NoEvent
    /\ UNCHANGED <<accessToken, isRefreshing, refreshQueue, phase, issued>>
    /\ device' = called(windowDefined)

\* The AuthProvider effect runs again after a run that has finished.
Remount(i) ==
    /\ ~mounted
    /\ reqs[i].st = "settled"
    /\ mounted' = TRUE
    /\ store' = setLoading(Client, TRUE).store
    /\ reqs' = [reqs EXCEPT ![i] = Send(Call("post", RefreshUrl, EmptyBody),
                                    getAccessToken(accessToken))]
    /\ event' = NoEvent
    /\ UNCHANGED <<accessToken, isRefreshing, refreshQueue, phase, issued>>
    /\ device' = called(windowDefined)

\* The effect's cleanup: cancelled = true for the run it belongs to.
Unmount ==
    /\ mounted
    /\ mounted' = FALSE
    /\ reqs' = [i \in AllIds |->
                  IF i \in BootIds /\ reqs[i].st = "sent"
                  THEN [reqs[i] EXCEPT !.cancelled = TRUE] ELSE reqs[i]]
    /\ event' = NoEvent
    /\ UNCHANGED <<accessToken, isRefreshing, refreshQueue, store, phase, issued>>
    /\ UNCHANGED device

\* --------------------------------------------------- response interceptor
\* branch without the test of _retry.
branchNoRetryCheck(resp, url, retry) ==
    IF resp.status = 0 THEN "network"
    ELSE IF resp.status = 403 /\ resp.stepUp THEN "stepUp"
    ELSE IF resp.status # 401 THEN "other"
    ELSE IF isAuthEndpoint(url) THEN "authEndpoint"
    ELSE "refreshPath"

\* branch that takes a 403 with stepUp for an expired token.
branchStepUpAsExpired(resp, url, retry) ==
    IF resp.status = 0 THEN "network"
    ELSE IF resp.status # 401 /\ ~(resp.status = 403 /\ resp.stepUp) THEN "other"
    ELSE IF isAuthEndpoint(url) THEN "authEndpoint"
    ELSE IF retry THEN "retried"
    ELSE "refreshPath"

\* branch that takes every 403 that asks for no step-up for an expired token.
branchForbiddenAsExpired(resp, url, retry) ==
    IF resp.status = 0 THEN "network"
    ELSE IF resp.status = 403 /\ resp.stepUp THEN "stepUp"
    ELSE IF resp.status # 401 /\ resp.status # 403 THEN "other"
    ELSE IF isAuthEndpoint(url) THEN "authEndpoint"
    ELSE IF retry THEN "retried"
    ELSE "refreshPath"

\* The branch of the rejection handler a response takes.
branch(resp, url, retry) ==
    IF resp.status = 0 THEN "network"
    ELSE IF resp.status = 403 /\ resp.stepUp THEN "stepUp"
    ELSE IF resp.status # 401 THEN "other"
    ELSE IF isAuthEndpoint(url) THEN "authEndpoint"
    ELSE IF retry THEN "retried"
    ELSE "refreshPath"

\* The refresh and login endpoints answer a success with a token.
GivesToken(i) == Caller(i) \in {"bootstrap", "login"}

\* (res) => res, then the caller's continuation.  An endpoint that gives a
\* token gives one it has not issued before.
Succeed(i) ==
    /\ reqs[i].st = "sent"
    /\ GivesToken(i) => issued < MaxTok
    /\ LET c == Continuation(i, Client, TRUE, issued + 1)
       IN /\ accessToken' = c.holder
          /\ store' = c.store
    /\ issued' = IF GivesToken(i) THEN issued + 1 ELSE issued
    /\ reqs' = [reqs EXCEPT ![i] = Done(@)]
    /\ event' = Settled(i, reqs[i].url, Resolved, 0)
    /\ UNCHANGED <<isRefreshing, refreshQueue, mounted, phase>>
    /\ UNCHANGED device

\* SucceedMfaRequired that signs the user in as well.
SucceedMfaRequiredSignsIn(i) ==
    /\ reqs[i].st = "sent"
    /\ Caller(i) = "login"
    /\ issued < MaxTok
    /\ phase' = "MFA"
    /\ LET c == setAuth(Client, SuperAdmin, issued + 1)
       IN /\ accessToken' = c.holder
          /\ store' = c.store
    /\ issued' = issued + 1
    /\ reqs' = [reqs EXCEPT ![i] = Done(@)]
    /\ event' = Settled(i, reqs[i].url, Resolved, 0)
    /\ UNCHANGED <<isRefreshing, refreshQueue, mounted>>
    /\ UNCHANGED device

\* (res) => res for a login answered { mfaRequired: true }: setPhase('MFA'),
\* no setAuth.
SucceedMfaRequired(i) ==
    /\ reqs[i].st = "sent"
    /\ Caller(i) = "login"
    /\ phase' = "MFA"
    /\ reqs' = [reqs EXCEPT ![i] = Done(@)]
    /\ event' = Settled(i, reqs[i].url, Resolved, 0)
    /\ UNCHANGED <<accessToken, isRefreshing, refreshQueue, store, mounted, issued>>
    /\ UNCHANGED device

\* Reject that empties the token holder before it rejects.
RejectClearsToken(i, resp) ==
    /\ reqs[i].st = "sent"
    /\ branch(resp, reqs[i].url, reqs[i].retry) \in
          {"network", "other", "authEndpoint", "retried"}
    /\ LET c == Continuation(i, [holder |-> Null, store |-> store], FALSE, Null)
       IN /\ accessToken' = c.holder
          /\ store' = c.store
    /\ reqs' = [reqs EXCEPT ![i] = Done(@)]
    /\ event' = Settled(i, reqs[i].url, Rejected("request", resp), 0)
    /\ UNCHANGED <<isRefreshing, refreshQueue, mounted, phase, issued>>
    /\ UNCHANGED device

\* return Promise.reject(error): no response, a status other than 401, a 401
\* of an auth endpoint, a 401 of a request already retried.
Reject(i, resp) ==
    /\ reqs[i].st = "sent"
    /\ branch(resp, reqs[i].url, reqs[i].retry) \in
          {"network", "other", "authEndpoint", "retried"}
    /\ LET c == Continuation(i, Client, FALSE, Null)
       IN /\ accessToken' = c.holder
          /\ store' = c.store
    /\ reqs' = [reqs EXCEPT ![i] = Done(@)]
    /\ event' = Settled(i, reqs[i].url, Rejected("request", resp), 0)
    /\ UNCHANGED <<isRefreshing, refreshQueue, mounted, phase, issued>>
    /\ UNCHANGED device

\* StepUp without the assignment to window.location.href.
StepUpNoRedirect(i, resp) ==
    /\ reqs[i].st = "sent"
    /\ branch(resp, reqs[i].url, reqs[i].retry) = "stepUp"
    /\ LET c == Continuation(i, Client, FALSE, Null)
       IN /\ accessToken' = c.holder
          /\ store' = c.store
    /\ reqs' = [reqs EXCEPT ![i] = Done(@)]
    /\ event' = Settled(i, reqs[i].url, Rejected("request", resp), 0)
    /\ UNCHANGED <<isRefreshing, refreshQueue, mounted, phase, issued>>
    /\ UNCHANGED device

\* 403 with { stepUp: true }: window.location.href = '/god/step-up', reject.
StepUp(i, resp) ==
    /\ reqs[i].st = "sent"
    /\ branch(resp, reqs[i].url, reqs[i].retry) = "stepUp"
    /\ LET c == Continuation(i, Client, FALSE, Null)
       IN /\ accessToken' = c.holder
          /\ store' = c.store
    /\ reqs' = [reqs EXCEPT ![i] = Done(@)]
    /\ event' = Settled(i, reqs[i].url, Rejected("request", resp), IF windowDefined THEN 1 ELSE 0)
    /\ UNCHANGED <<isRefreshing, refreshQueue, mounted, phase, issued>>
    /\ UNCHANGED device

\* Bookkeeping for the requests in their first flight that carry the token of
\* request i when i receives its token-expired 401.
expired(rs, i) ==
    [j \in AllIds |->
        IF j # i /\ j \in ReqIds /\ rs[j].st = "sent" /\ ~rs[j].retry
           /\ rs[j].hdr = rs[i].hdr
        THEN [rs[j] EXCEPT !.peer401 = TRUE] ELSE rs[j]]

\* Enqueue that issues a refresh call of its own instead of waiting.
EnqueueRefreshesAgain(i, resp) ==
    /\ reqs[i].st = "sent"
    /\ branch(resp, reqs[i].url, reqs[i].retry) = "refreshPath"
    /\ isRefreshing
    /\ reqs' = [expired(reqs, i) EXCEPT ![i] =
                  [@ EXCEPT !.retry = TRUE, !.st = "awaitRefresh", !.peer401 = FALSE,
                             !.refresh = SendRefresh(getAccessToken(accessToken))]]
    /\ event' = NoEvent
    /\ UNCHANGED <<accessToken, isRefreshing, refreshQueue, store, mounted, phase, issued>>
    /\ device' = called(windowDefined)

\* _retry = true; a refresh is in flight: push the callback, return the
\* promise it will resolve.
Enqueue(i, resp) ==
    /\ reqs[i].st = "sent"
    /\ branch(resp, reqs[i].url, reqs[i].retry) = "refreshPath"
    /\ isRefreshing
    /\ reqs' = [expired(reqs, i) EXCEPT ![i] =
                  [@ EXCEPT !.retry = TRUE, !.st = "queued", !.peer401 = FALSE]]
    /\ refreshQueue' = Append(refreshQueue, i)
    /\ event' = NoEvent
    /\ UNCHANGED <<accessToken, isRefreshing, store, mounted, phase, issued>>
    /\ UNCHANGED device

\* StartRefresh without the test of isRefreshing before it.
StartRefreshUnguarded(i, resp) ==
    /\ reqs[i].st = "sent"
    /\ branch(resp, reqs[i].url, reqs[i].retry) = "refreshPath"
    /\ isRefreshing' = TRUE
    /\ reqs' = [expired(reqs, i) EXCEPT ![i] =
                  [@ EXCEPT !.retry = TRUE, !.st = "awaitRefresh", !.peer401 = FALSE,
                             !.refresh = SendRefresh(getAccessToken(accessToken))]]
    /\ event' = NoEvent
    /\ UNCHANGED <<accessToken, refreshQueue, store, mounted, phase, issued>>
    /\ device' = called(windowDefined)

\* StartRefresh without isRefreshing = true.
StartRefreshNoFlag(i, resp) ==
    /\ reqs[i].st = "sent"
    /\ branch(resp, reqs[i].url, reqs[i].retry) = "refreshPath"
    /\ ~isRefreshing
    /\ reqs' = [expired(reqs, i) EXCEPT ![i] =
                  [@ EXCEPT !.retry = TRUE, !.st = "awaitRefresh", !.peer401 = FALSE,
                             !.refresh = SendRefresh(getAccessToken(accessToken))]]
    /\ event' = NoEvent
    /\ UNCHANGED <<accessToken, isRefreshing, refreshQueue, store, mounted, phase, issued>>
    /\ device' = called(windowDefined)

\* _retry = true; isRefreshing = true; await api.post(refresh).
StartRefresh(i, resp) ==
    /\ reqs[i].st = "sent"
    /\ branch(resp, reqs[i].url, reqs[i].retry) = "refreshPath"
    /\ ~isRefreshing
    /\ isRefreshing' = TRUE
    /\ reqs' = [expired(reqs, i) EXCEPT ![i] =
                  [@ EXCEPT !.retry = TRUE, !.st = "awaitRefresh", !.peer401 = FALSE,
                             !.refresh = SendRefresh(getAccessToken(accessToken))]]
    /\ event' = NoEvent
    /\ UNCHANGED <<accessToken, refreshQueue, store, mounted, phase, issued>>
    /\ device' = called(windowDefined)

\* resume that resubmits a config whose _retry is lost.
resumeForgetsRetry(r, newToken, token) ==
    Send([r EXCEPT !.hdr = IF newToken # Null THEN newToken ELSE @, !.retry = FALSE],
         token)

\* A queued callback: set the header if there is a new token, then
\* resolve(api(originalRequest)); `token` is what the token holder holds when
\* the request interceptor of the resubmission runs.
resume(r, newToken, token) ==
    Send([r EXCEPT !.hdr = IF newToken # Null THEN newToken ELSE @], token)

\* forEach over a queue emptied before it: no callback runs.
forEachDropped(queue, rs, newToken, token) == rs

\* refreshQueue.forEach((cb) => cb(newToken))
RECURSIVE forEach(_, _, _, _)
forEach(queue, rs, newToken, token) ==
    IF queue = <<>> THEN rs
    ELSE forEach(Tail(queue),
                 [rs EXCEPT ![Head(queue)] = resume(@, newToken, token)],
                 newToken, token)

\* RefreshSucceeds without refreshQueue = [].
RefreshSucceedsKeepsQueue(i) ==
    /\ reqs[i].st = "awaitRefresh"
    /\ issued < MaxTok
    /\ LET tok == issued + 1
           held == setAccessToken(accessToken, tok)
       IN /\ issued' = tok
          /\ accessToken' = held
          /\ reqs' = [forEach(refreshQueue, reqs, tok, getAccessToken(held)) EXCEPT
                        ![i] = Send([@ EXCEPT !.hdr = tok, !.refresh = NoRefreshCall],
                                    getAccessToken(held))]
    /\ isRefreshing' = FALSE
    /\ event' = NoEvent
    /\ UNCHANGED <<refreshQueue, store, mounted, phase>>
    /\ device' = called(windowDefined)

\* The refresh call of initiator i succeeds: the try block after the await.
RefreshSucceeds(i) ==
    /\ reqs[i].st = "awaitRefresh"
    /\ issued < MaxTok
    /\ LET tok == issued + 1
           held == setAccessToken(accessToken, tok)
       IN /\ issued' = tok
          /\ accessToken' = held
          /\ reqs' = [forEach(refreshQueue, reqs, tok, getAccessToken(held)) EXCEPT
                        ![i] = Send([@ EXCEPT !.hdr = tok, !.refresh = NoRefreshCall],
                                    getAccessToken(held))]
    /\ refreshQueue' = <<>>
    /\ isRefreshing' = FALSE
    /\ event' = NoEvent
    /\ UNCHANGED <<store, mounted, phase>>
    /\ device' = called(windowDefined)

\* RefreshFails without tokenBridge.setAccessToken(null).
RefreshFailsKeepsToken(i, resp) ==
    /\ reqs[i].st = "awaitRefresh"
    /\ branch(resp, RefreshUrl, FALSE) # "refreshPath"
    /\ LET c == Continuation(i, Client, FALSE, Null)
       IN /\ accessToken' = c.holder
          /\ store' = c.store
    /\ reqs' = [forEach(refreshQueue, reqs, Null, accessToken) EXCEPT ![i] = Done(@)]
    /\ refreshQueue' = <<>>
    /\ isRefreshing' = FALSE
    /\ event' = Settled(i, reqs[i].url, Rejected("refresh", resp),
                        IF branch(resp, RefreshUrl, FALSE) = "stepUp" /\ windowDefined
                        THEN 1 ELSE 0)
    /\ UNCHANGED <<mounted, phase, issued>>
    /\ device' = IF refreshQueue = <<>> THEN device ELSE called(windowDefined)

\* RefreshFails without refreshQueue = [].
RefreshFailsKeepsQueue(i, resp) ==
    /\ reqs[i].st = "awaitRefresh"
    /\ branch(resp, RefreshUrl, FALSE) # "refreshPath"
    /\ LET held == setAccessToken(accessToken, Null)
           c == Continuation(i, [holder |-> held, store |-> store], FALSE, Null)
       IN /\ accessToken' = c.holder
          /\ store' = c.store
          /\ reqs' = [forEach(refreshQueue, reqs, Null, getAccessToken(held))
                        EXCEPT ![i] = Done(@)]
    /\ isRefreshing' = FALSE
    /\ event' = Settled(i, reqs[i].url, Rejected("refresh", resp),
                        IF branch(resp, RefreshUrl, FALSE) = "stepUp" /\ windowDefined
                        THEN 1 ELSE 0)
    /\ UNCHANGED <<refreshQueue, mounted, phase, issued>>
    /\ device' = IF refreshQueue = <<>> THEN device ELSE called(windowDefined)

\* RefreshFails without isRefreshing = false.
RefreshFailsKeepsFlag(i, resp) ==
    /\ reqs[i].st = "awaitRefresh"
    /\ branch(resp, RefreshUrl, FALSE) # "refreshPath"
    /\ LET held == setAccessToken(accessToken, Null)
           c == Continuation(i, [holder |-> held, store |-> store], FALSE, Null)
       IN /\ accessToken' = c.holder
          /\ store' = c.store
          /\ reqs' = [forEach(refreshQueue, reqs, Null, getAccessToken(held))
                        EXCEPT ![i] = Done(@)]
    /\ refreshQueue' = <<>>
    /\ event' = Settled(i, reqs[i].url, Rejected("refresh", resp),
                        IF branch(resp, RefreshUrl, FALSE) = "stepUp" /\ windowDefined
                        THEN 1 ELSE 0)
    /\ UNCHANGED <<isRefreshing, mounted, phase, issued>>
    /\ device' = IF refreshQueue = <<>> THEN device ELSE called(windowDefined)

\* The refresh call of initiator i fails: its own error passes the rejection
\* handler (a refresh URL, never retried), then the catch block runs.
RefreshFails(i, resp) ==
    /\ reqs[i].st = "awaitRefresh"
    /\ branch(resp, RefreshUrl, FALSE) # "refreshPath"
    /\ LET held == setAccessToken(accessToken, Null)
           c == Continuation(i, [holder |-> held, store |-> store], FALSE, Null)
       IN /\ accessToken' = c.holder
          /\ store' = c.store
          /\ reqs' = [forEach(refreshQueue, reqs, Null, getAccessToken(held))
                        EXCEPT ![i] = Done(@)]
    /\ refreshQueue' = <<>>
    /\ isRefreshing' = FALSE
    /\ event' = Settled(i, reqs[i].url, Rejected("refresh", resp),
                        IF branch(resp, RefreshUrl, FALSE) = "stepUp" /\ windowDefined
                        THEN 1 ELSE 0)
    /\ UNCHANGED <<mounted, phase, issued>>
    /\ device' = IF refreshQueue = <<>> THEN device ELSE called(windowDefined)

Next ==
    \/ \E i \in ReqIds, url \in GuardedUrls : IssueRequest(i, url)
    \/ \E i \in ReqIds : SubmitLogin(i)
    \/ \E i \in BootIds : Mount(i)
    \/ Unmount
    \/ \E i \in AllIds : Succeed(i)
    \/ \E i \in ReqIds : SucceedMfaRequired(i)
    \/ \E i \in AllIds, resp \in ErrorResponses : Reject(i, resp)
    \/ \E i \in AllIds, resp \in ErrorResponses : StepUp(i, resp)
    \/ \E i \in ReqIds, resp \in ErrorResponses : Enqueue(i, resp)
    \/ \E i \in ReqIds, resp \in ErrorResponses : StartRefresh(i, resp)
    \/ \E i \in ReqIds : RefreshSucceeds(i)
    \/ \E i \in ReqIds, resp \in ErrorResponses : RefreshFails(i, resp)

Spec == Init /\ [][Next]_vars

\* The session lifecycle alone: repeated runs of the bootstrap and logins,
\* with no request of a guarded screen.
SessionNext ==
    \/ \E i \in BootIds : Mount(i)
    \/ \E i \in BootIds : Remount(i)
    \/ Unmount
    \/ \E i \in ReqIds : SubmitLogin(i)
    \/ \E i \in AllIds : Succeed(i)
    \/ \E i \in ReqIds : SucceedMfaRequired(i)
    \/ \E i \in AllIds, resp \in ErrorResponses : Reject(i, resp)
    \/ \E i \in AllIds, resp \in ErrorResponses : StepUp(i, resp)

SessionSpec == Init /\ [][SessionNext]_vars

\* The session of a page loaded in any browser profile, whose storage may be
\* cleared under it.
DeviceNext == SessionNext \/ ClearStorage

DeviceSpec == DeviceInit /\ [][DeviceNext]_vars

\* The session with the step-up page, whose form is behind a guard of its
\* own.
GuardNext == SessionNext \/ \E i \in ReqIds : SubmitStepUp(i)

GuardSpec == Init /\ [][GuardNext]_vars

\* The screens of one run of the app: the login form, the requests of the
\* protected screens and the logout, with the refresh path their 401s enter;
\* the AuthProvider effect runs once and is not cleaned up.
ScreensNext ==
    \/ \E i \in BootIds : Mount(i)
    \/ \E i \in ReqIds, url \in GuardedUrls : IssueRequest(i, url)
    \/ \E i \in ReqIds : Logout(i)
    \/ \E i \in ReqIds : SubmitLogin(i)
    \/ \E i \in AllIds : Succeed(i)
    \/ \E i \in ReqIds : SucceedMfaRequired(i)
    \/ \E i \in AllIds, resp \in ErrorResponses : Reject(i, resp)
    \/ \E i \in AllIds, resp \in ErrorResponses : StepUp(i, resp)
    \/ \E i \in ReqIds, resp \in ErrorResponses : Enqueue(i, resp)
    \/ \E i \in ReqIds, resp \in ErrorResponses : StartRefresh(i, resp)
    \/ \E i \in ReqIds : RefreshSucceeds(i)
    \/ \E i \in ReqIds, resp \in ErrorResponses : RefreshFails(i, resp)

ScreensSpec == Init /\ [][ScreensNext]_vars

\* The refresh call a rejection handler awaits is answered or fails: the
\* server, or the network stack, ends every call.
RefreshSettles ==
    \E i \in ReqIds :
        RefreshSucceeds(i) \/ \E resp \in ErrorResponses : RefreshFails(i, resp)

FairScreensSpec == Init /\ [][ScreensNext]_vars /\ WF_vars(RefreshSettles)

\* ------------------------------------------------------------ properties
\* The refresh calls of the response interceptor that are unresolved: one
\* per rejection handler suspended at `await api.post(refresh)`.
CoordinatorRefreshCalls == {i \in AllIds : reqs[i].st = "awaitRefresh"}

\* The refresh calls of the Session Bootstrapper that are unresolved.
BootstrapRefreshCalls == {i \in BootIds : reqs[i].st = "sent"}

\* The requests waiting for the refresh in flight: its initiator and the queue.
Pending == {i \in AllIds : reqs[i].st \in {"awaitRefresh", "queued"}}

\* The rejection handler runs for the answer `resp` to request i, which was
\* in flight and no longer is.
Deliver(i, resp) ==
    /\ reqs[i].st = "sent"
    /\ reqs'[i].st # "sent"
    /\ \/ Reject(i, resp)
       \/ StepUp(i, resp)
       \/ Enqueue(i, resp)
       \/ StartRefresh(i, resp)

\* C1: in every reachable state at most one refresh call issued by the
\* response interceptor is unresolved: a handler that finds a refresh in
\* flight never issues a second one.
C1_SingleFlight == Cardinality(CoordinatorRefreshCalls) <= 1

\* C1 witness: a 401 was handled while the refresh call of another request
\* was unresolved, and it was queued.
C1_Witness ==
    \E i, j \in ReqIds : reqs[i].st = "awaitRefresh" /\ reqs[j].st = "queued"

\* C2 (as claimed): counting the refresh calls of the interceptor and those
\* of the bootstrap, at most one is outstanding in every reachable state.
C2_AtMostOneRefreshOutstanding ==
    Cardinality(CoordinatorRefreshCalls \cup BootstrapRefreshCalls) <= 1

\* C3 (as claimed): of the requests in flight together with one expired
\* token, only one starts a refresh, whenever their 401s arrive: a request
\* whose peer has already received the token-expired 401 never starts a
\* refresh of its own; and a successful refresh resubmits every pending
\* request with the token it produced.
C3_OneRefreshAnyOrder ==
    [][ /\ \A j \in ReqIds, resp \in ErrorResponses :
              StartRefresh(j, resp) => ~reqs[j].peer401
        /\ \A i \in ReqIds :
              RefreshSucceeds(i) =>
                 \A j \in Pending : reqs'[j].st = "sent" /\ reqs'[j].hdr = issued'
      ]_vars

\* C3 (amended): a token-expired 401 handled while a refresh is in flight
\* issues no refresh call, so the requests whose 401s are all handled before
\* the refresh answers share one refresh call; when it succeeds each of them
\* is resubmitted in that step, once, with the token the refresh produced.
C3_OneRefreshWhileInFlight ==
    [][ /\ \A j \in ReqIds, resp \in ErrorResponses :
              (Enqueue(j, resp) \/ StartRefresh(j, resp)) =>
                 /\ Cardinality(CoordinatorRefreshCalls') = 1
                 /\ Pending # {} => CoordinatorRefreshCalls' = CoordinatorRefreshCalls
                 /\ Pending' = Pending \cup {j}
        /\ \A i \in ReqIds :
              RefreshSucceeds(i) =>
                 /\ CoordinatorRefreshCalls' = {}
                 /\ \A j \in Pending :
                       /\ reqs'[j].st = "sent"
                       /\ reqs'[j].sends = reqs[j].sends + 1
                       /\ reqs'[j].hdr = issued'
                       /\ issued' # issued
      ]_vars

\* C3 witness: two requests resubmitted after one refresh, both carrying the
\* token it produced.
C3_Witness ==
    /\ \A i \in {1, 2} :
          /\ reqs[i].st = "sent" /\ reqs[i].retry
          /\ reqs[i].sends = 2 /\ reqs[i].hdr = accessToken
    /\ accessToken = issued
    /\ ~isRefreshing

\* C4 (as claimed): when the refresh call fails, every pending request, the
\* initiator and the queued ones, is rejected with the refresh failure and
\* none is resubmitted.
C4_AllPendingRejected ==
    [][ \A i \in ReqIds, resp \in ErrorResponses :
           RefreshFails(i, resp) =>
              /\ event'.id = i
              /\ event'.outcome = Rejected("refresh", resp)
              /\ \A j \in Pending :
                    reqs'[j].st = "settled" /\ reqs'[j].sends = reqs[j].sends
      ]_vars

\* C5: in the step in which the refresh call fails the token holder becomes
\* null and the coordinator returns to IDLE with an empty queue, and a waiter
\* resumed in that step finds the holder empty: the request interceptor
\* attaches nothing to its resubmission.
C5_TokenClearedOnFailure ==
    [][ \A i \in ReqIds, resp \in ErrorResponses :
           RefreshFails(i, resp) =>
              /\ accessToken' = Null
              /\ ~isRefreshing'
              /\ refreshQueue' = <<>>
              /\ \A j \in Pending \ {i} : reqs'[j].hdr = reqs[j].hdr
      ]_vars

\* C5 witness: the refresh has just failed with a waiter in the queue; the
\* holder is empty, the coordinator is IDLE and the waiter has been resumed.
C5_Witness ==
    /\ event.outcome.of = "refresh"
    /\ accessToken = Null
    /\ ~isRefreshing
    /\ \E j \in ReqIds : reqs[j].st = "sent" /\ reqs[j].retry /\ reqs[j].hdr # Null

\* C6: no request leaves for the network more than twice; a settled request
\* is never sent again; and a 401 for a request whose _retry is set is
\* rejected to its caller with that error without being queued and without
\* starting a refresh.
C6_BoundedRetry ==
    [][ /\ \A i \in AllIds : reqs'[i].sends <= 2
        /\ \A i \in AllIds : reqs[i].st = "settled" => reqs'[i] = reqs[i]
        /\ \A i \in AllIds :
              (reqs[i].retry /\ Deliver(i, Unauthorized)) =>
                 /\ event' = Settled(i, reqs[i].url, Rejected("request", Unauthorized), 0)
                 /\ reqs'[i].st = "settled"
                 /\ reqs'[i].sends = reqs[i].sends
                 /\ isRefreshing' = isRefreshing
                 /\ refreshQueue' = refreshQueue
                 /\ CoordinatorRefreshCalls' = CoordinatorRefreshCalls
      ]_vars

\* C6 witness: a request that was resubmitted after a refresh received 401
\* again and was rejected with it after its second send.
C6_Witness ==
    /\ event.id \in ReqIds
    /\ event.outcome = Rejected("request", Unauthorized)
    /\ reqs[event.id].retry
    /\ reqs[event.id].sends = 2
    /\ reqs[event.id].st = "settled"

\* The auth endpoints the screens and the client call.
C7_AuthUrls == {LoginUrl, RefreshUrl, MfaStatusUrl, MfaSetupUrl, StepUpVerifyUrl}

\* The rejection handler takes the 401 of every auth URL, retried or not, for
\* the 401 of an auth endpoint.
C7_AuthUrlsClassified ==
    \A url \in C7_AuthUrls, retry \in BOOLEAN :
        branch(Unauthorized, url, retry) = "authEndpoint"

\* C7: a 401 for a request to an auth endpoint (the bootstrap's refresh call
\* included) is rejected to its caller and changes neither isRefreshing nor
\* the queue nor the refresh calls in flight; the 401 of the coordinator's own
\* refresh call reaches its catch block and leaves no refresh call in flight;
\* the handler classifies a 401 of every auth URL as an auth-endpoint 401.
C7_AuthEndpoint401 ==
    [][ /\ \A i \in AllIds :
              (reqs[i].url \in C7_AuthUrls /\ Deliver(i, Unauthorized)) =>
                 /\ event' = Settled(i, reqs[i].url, Rejected("request", Unauthorized), 0)
                 /\ reqs'[i].st = "settled"
                 /\ isRefreshing' = isRefreshing
                 /\ refreshQueue' = refreshQueue
                 /\ CoordinatorRefreshCalls' = CoordinatorRefreshCalls
        /\ \A i \in ReqIds :
              RefreshFails(i, Unauthorized) =>
                 /\ CoordinatorRefreshCalls' = {}
                 /\ event'.outcome = Rejected("refresh", Unauthorized)
        /\ C7_AuthUrlsClassified
      ]_vars

\* C7 witness: a request to an auth endpoint was rejected with its 401 while
\* a refresh was in flight.
C7_Witness ==
    /\ isRefreshing
    /\ event.id \in AllIds
    /\ event.url \in C7_AuthUrls
    /\ event.outcome = Rejected("request", Unauthorized)

\* C8: handling a 403 with stepUp = true issues no refresh call and leaves
\* isRefreshing, the queue, the pending requests and the request's _retry as
\* they were; the token holder is left as it was unless the caller is a live
\* bootstrap run, whose own catch block calls clearAuth.
C8_StepUpOutsideRefreshPath ==
    [][ \A i \in AllIds :
           Deliver(i, StepUp403) =>
              /\ isRefreshing' = isRefreshing
              /\ refreshQueue' = refreshQueue
              /\ CoordinatorRefreshCalls' = CoordinatorRefreshCalls
              /\ Pending' = Pending
              /\ reqs'[i].retry = reqs[i].retry
              /\ (Caller(i) # "bootstrap" \/ reqs[i].cancelled) =>
                    accessToken' = accessToken
      ]_vars

\* C8 witness: a 403 with stepUp was handled while a refresh was in flight
\* and the token holder held a token.
C8_Witness ==
    /\ isRefreshing
    /\ accessToken # Null
    /\ event.id \in ReqIds
    /\ event.outcome = Rejected("request", StepUp403)

\* C9: each 403 with stepUp = true assigns window.location.href exactly once
\* and rejects the error to the caller of the request, which is not sent
\* again (no settled request ever is); the same holds when the response
\* answers the coordinator's refresh call; nothing else redirects.
C9_StepUpRedirectsOnce ==
    [][ /\ \A i \in AllIds :
              Deliver(i, StepUp403) =>
                 /\ event' = Settled(i, reqs[i].url, Rejected("request", StepUp403), 1)
                 /\ reqs'[i].st = "settled"
                 /\ reqs'[i].sends = reqs[i].sends
                 /\ \A j \in AllIds \ {i} : reqs'[j] = reqs[j]
        /\ \A i \in ReqIds :
              RefreshFails(i, StepUp403) =>
                 /\ event'.redirects = 1
                 /\ event'.outcome = Rejected("refresh", StepUp403)
        /\ \A i \in AllIds : reqs[i].st = "settled" => reqs'[i].st = "settled"
        /\ event'.redirects # 0 => event'.outcome.status = 403 /\ event'.outcome.stepUp
      ]_vars

\* C9 witness: the resubmission of a request was answered 403 with stepUp:
\* one redirect, the error rejected to the caller.
C9_Witness ==
    /\ event.id \in ReqIds
    /\ event.redirects = 1
    /\ event.outcome = Rejected("request", StepUp403)
    /\ reqs[event.id].retry
    /\ reqs[event.id].sends = 2

\* C10: the step in which the refresh succeeds stores the new token, settles
\* no promise and resubmits every pending request once, with the holder
\* already holding the new token; handling the first 401 settles no promise
\* either; a resubmitted request settles only in a step that delivers its
\* own response, with that response's outcome, and that step changes no
\* other request.
C10_ReplayOnSuccess ==
    [][ /\ \A i \in ReqIds :
              RefreshSucceeds(i) =>
                 /\ accessToken' = issued' /\ issued' = issued + 1
                 /\ event' = NoEvent
                 /\ Pending' = {}
                 /\ \A j \in Pending :
                       /\ reqs'[j].st = "sent"
                       /\ reqs'[j].sends = reqs[j].sends + 1
                       /\ reqs'[j].hdr = accessToken'
        /\ \A j \in ReqIds, resp \in ErrorResponses :
              (Enqueue(j, resp) \/ StartRefresh(j, resp)) => event' = NoEvent
        /\ \A j \in ReqIds :
              (reqs[j].st = "sent" /\ reqs[j].retry /\ reqs'[j].st = "settled") =>
                 /\ event'.id = j
                 /\ event'.outcome.of = "request"
                 /\ \A k \in AllIds \ {j} : reqs'[k] = reqs[k]
      ]_vars

\* C10 witness: after one refresh two requests were resubmitted; one has just
\* resolved with its own response while the other is still in flight with
\* the new token.
C10_Witness ==
    /\ event.id \in ReqIds
    /\ event.outcome = Resolved
    /\ reqs[event.id].retry /\ reqs[event.id].sends = 2
    /\ \E k \in ReqIds \ {event.id} :
          reqs[k].st = "sent" /\ reqs[k].retry /\ reqs[k].hdr = accessToken

\* A resubmission of request j leaves for the network in this step.
Replayed(j) ==
    reqs[j].retry /\ reqs'[j].st = "sent" /\ reqs'[j].sends = reqs[j].sends + 1

\* C11 (as claimed): every replayed request carries the token the refresh
\* produced, not the one it was first sent with, and its method, URL and body
\* are those of the original request.
C11_ReplayCarriesNewToken ==
    [][ \A j \in ReqIds :
           Replayed(j) =>
              /\ reqs'[j].hdr = issued'
              /\ reqs'[j].hdr # reqs[j].hdr
              /\ reqs'[j].method = reqs[j].method
              /\ reqs'[j].url = reqs[j].url
              /\ reqs'[j].data = reqs[j].data
      ]_vars

\* C12: a refresh call of the interceptor appears only in a step that handles
\* a 401 for a request that is in flight, not retried and not to an auth
\* endpoint, while no refresh is in flight; handling a response that is not a
\* 401 never changes the refresh calls in flight.
C12_RefreshOnlyOn401 ==
    [][ /\ \A j \in AllIds :
              (reqs[j].st # "awaitRefresh" /\ reqs'[j].st = "awaitRefresh") =>
                 /\ reqs[j].st = "sent"
                 /\ ~reqs[j].retry
                 /\ ~isAuthEndpoint(reqs[j].url)
                 /\ ~isRefreshing
                 /\ StartRefresh(j, Unauthorized)
        /\ CoordinatorRefreshCalls' # CoordinatorRefreshCalls =>
              \A j \in AllIds, resp \in ErrorResponses :
                 resp.status # 401 => ~Deliver(j, resp)
      ]_vars

\* C12 witness: a refresh call is in flight, started by the 401 of one of
\* several requests that were in flight together; another is still in its
\* first flight.
C12_Witness ==
    \E i, j \in ReqIds :
        /\ i # j
        /\ CoordinatorRefreshCalls = {i}
        /\ reqs[j].st = "sent" /\ ~reqs[j].retry

\* The requests whose callbacks are in the queue.
Queued == {refreshQueue[k] : k \in 1..Len(refreshQueue)}

\* C13: in every reachable state a non-empty queue implies isRefreshing.
C13_QueueOnlyWhileRefreshing == refreshQueue # <<>> => isRefreshing

\* C13 witness: a callback is in the queue and a refresh is in flight.
C13_Witness ==
    /\ isRefreshing
    /\ Len(refreshQueue) >= 1
    /\ \A j \in Queued : reqs[j].st = "queued"

\* C14: the queue holds each waiting request once; it changes only by the
\* push of a request not in it while a refresh is in flight, or by being
\* emptied in the step in which isRefreshing returns to false; in that step
\* the callback of every entry runs once (the request leaves once more), and
\* no request stops waiting in any other step.
C14_QueueConsumedOnce ==
    [][ /\ Cardinality(Queued) = Len(refreshQueue)
        /\ \A j \in AllIds : reqs[j].st = "queued" <=> j \in Queued
        /\ (isRefreshing /\ ~isRefreshing') =>
              /\ refreshQueue' = <<>>
              /\ \A j \in Queued :
                    reqs'[j].st = "sent" /\ reqs'[j].sends = reqs[j].sends + 1
        /\ refreshQueue' # refreshQueue =>
              \/ /\ isRefreshing /\ isRefreshing'
                 /\ \E j \in ReqIds \ Queued : refreshQueue' = Append(refreshQueue, j)
              \/ /\ isRefreshing /\ ~isRefreshing'
                 /\ refreshQueue' = <<>>
        /\ \A j \in Queued : reqs'[j].st # "queued" => ~isRefreshing'
      ]_vars

\* C14 witness: the refresh has just settled with a waiter in the queue: the
\* queue is empty, isRefreshing is false and the waiter has left once more.
C14_Witness ==
    /\ refreshQueue = <<>>
    /\ ~isRefreshing
    /\ event = NoEvent \/ event.outcome.of = "refresh"
    /\ \E i, j \in ReqIds :
          /\ i # j
          /\ reqs[i].retry
          /\ reqs[j].st = "sent" /\ reqs[j].retry /\ reqs[j].sends = 2

\* C15 (as claimed): a 401 of an auth endpoint and a 401 of a request already
\* retried are rejected to the caller and leave the token holder empty.
C15_TerminalAuthClearsToken ==
    [][ \A i \in AllIds :
           ( /\ Deliver(i, Unauthorized)
             /\ branch(Unauthorized, reqs[i].url, reqs[i].retry) \in
                   {"authEndpoint", "retried"} ) =>
              /\ event' = Settled(i, reqs[i].url, Rejected("request", Unauthorized), 0)
              /\ accessToken' = Null
      ]_vars

\* C16: hasBootstrapped never returns to false: no step of the session
\* lifecycle (bootstrap runs, repeated or cancelled, and logins) resets it; a
\* bootstrap run started when it is true sets isLoading and leaves it true;
\* and none of the store's operations, setAuth, clearAuth (all a logout
\* runs) and setLoading, resets it in any reachable state.
C16_HasBootstrappedMonotonic ==
    [][ /\ store.hasBootstrapped => store'.hasBootstrapped
        /\ \A i \in BootIds :
              (Remount(i) /\ store.hasBootstrapped) =>
                 store'.isLoading /\ store'.hasBootstrapped
        /\ store.hasBootstrapped =>
              /\ \A user \in {Null, SuperAdmin}, token \in 0..MaxTok :
                    setAuth(Client, user, token).store.hasBootstrapped
              /\ clearAuth(Client).store.hasBootstrapped
              /\ logoutSettled(Client).store.hasBootstrapped
              /\ \A value \in BOOLEAN :
                    setLoading(Client, value).store.hasBootstrapped
      ]_vars

\* C16 witness: a second bootstrap run is in flight after hasBootstrapped
\* became true: isLoading is true again, hasBootstrapped still is.
C16_Witness ==
    /\ store.hasBootstrapped
    /\ store.isLoading
    /\ \E i \in BootIds : reqs[i].st = "sent" /\ ~reqs[i].cancelled

\* C17 (as claimed): hasBootstrapped is false in every state in which no
\* bootstrap refresh call has resolved yet.
C17_FalseBeforeBootstrapResolves ==
    store.hasBootstrapped => \E i \in BootIds : reqs[i].st = "settled"

\* The store after a bootstrap run that succeeded with `token`, and after one
\* that failed.
C18_SignedIn(token) ==
    [user |-> SuperAdmin, accessToken |-> token, isLoading |-> FALSE,
     hasBootstrapped |-> TRUE]

C18_SignedOut ==
    [user |-> Null, accessToken |-> Null, isLoading |-> FALSE,
     hasBootstrapped |-> TRUE]

\* C18 (as claimed): whenever the refresh call of a bootstrap run resolves,
\* the client is in the state of its outcome: on success the token holder
\* holds the returned token and the store is signed in; on failure the token
\* holder is null and the store is signed out; either way hasBootstrapped is
\* true and isLoading false.
C18_EveryBootstrapOutcome ==
    [][ \A i \in BootIds :
           /\ Succeed(i) =>
                 accessToken' = issued' /\ store' = C18_SignedIn(issued')
           /\ \A resp \in ErrorResponses :
                 (Reject(i, resp) \/ StepUp(i, resp)) =>
                    accessToken' = Null /\ store' = C18_SignedOut
      ]_vars

\* C18: whenever the refresh call of a bootstrap run that has not been
\* cancelled resolves, the client is in the state of its outcome; a run
\* cancelled by the effect's cleanup changes nothing when its call resolves.
C18_LiveBootstrapOutcome ==
    [][ \A i \in BootIds :
           /\ ~reqs[i].cancelled =>
                 /\ Succeed(i) =>
                       accessToken' = issued' /\ store' = C18_SignedIn(issued')
                 /\ \A resp \in ErrorResponses :
                       (Reject(i, resp) \/ StepUp(i, resp)) =>
                          accessToken' = Null /\ store' = C18_SignedOut
           /\ reqs[i].cancelled =>
                 \A resp \in ErrorResponses :
                    (Succeed(i) \/ Reject(i, resp) \/ StepUp(i, resp)) =>
                       accessToken' = accessToken /\ store' = store
      ]_vars

\* C18 witness: the refresh call of a live bootstrap run has just failed
\* while a token was held: holder and user are null, hasBootstrapped is true
\* and isLoading false.
C18_Witness ==
    /\ event.id \in BootIds
    /\ event.outcome.of = "request" /\ event.outcome.status # 200
    /\ issued > 0
    /\ accessToken = Null
    /\ store = C18_SignedOut

\* C19: an error with no response, and an error response that is neither a
\* 401 nor a 403 with stepUp, is rejected to the caller of its request as it
\* is, without a redirect; handling it leaves isRefreshing, the queue, the
\* refresh calls in flight, the request's _retry and every other request as
\* they were, and the token holder too unless the caller is a live bootstrap
\* run, whose own catch block calls clearAuth.
C19_PassThroughErrors ==
    [][ \A i \in AllIds, resp \in ErrorResponses :
           ( /\ resp.status # 401
             /\ ~(resp.status = 403 /\ resp.stepUp)
             /\ Deliver(i, resp) ) =>
              /\ event' = Settled(i, reqs[i].url, Rejected("request", resp), 0)
              /\ reqs'[i].st = "settled"
              /\ reqs'[i].retry = reqs[i].retry
              /\ reqs'[i].sends = reqs[i].sends
              /\ \A j \in AllIds \ {i} : reqs'[j] = reqs[j]
              /\ isRefreshing' = isRefreshing
              /\ refreshQueue' = refreshQueue
              /\ CoordinatorRefreshCalls' = CoordinatorRefreshCalls
              /\ (Caller(i) # "bootstrap" \/ reqs[i].cancelled) =>
                    accessToken' = accessToken
      ]_vars

\* C19 witness: a request failed without a response while a refresh was in
\* flight and a token was held; its error was rejected to its caller.
C19_Witness ==
    /\ isRefreshing
    /\ accessToken # Null
    /\ event.id \in ReqIds
    /\ event.outcome = Rejected("request", NetworkError)
    /\ event.redirects = 0

\* The request interceptor overwrites any Authorization with a token that is
\* held, and attaches the device headers exactly when getDeviceInfo gives an
\* identifier.
C20_InterceptorAttaches ==
    /\ \A hdr \in 0..MaxTok, token \in 1..MaxTok :
          requestInterceptor(hdr, token) = token
    /\ \A window \in BOOLEAN :
          deviceHeaders(NoDevice, window) =
             IF getDeviceInfo(window).deviceId # Null
             THEN [id |-> getDeviceInfo(window).deviceId,
                   label |-> getDeviceInfo(window).deviceLabel]
             ELSE NoDevice

\* C20: every request that leaves while the token holder holds a token, the
\* refresh call of the rejection handler and the replays included, carries
\* that token, read when the request interceptor runs; every request that
\* leaves carries the device headers, token or not; and the interceptor
\* attaches the device headers exactly when getDeviceInfo gives an identifier.
C20_RequestDecoration ==
    [][ /\ \A i \in AllIds :
              (reqs'[i].st = "sent" /\ reqs'[i].sends = reqs[i].sends + 1) =>
                 /\ accessToken' # Null => reqs'[i].hdr = accessToken'
                 /\ reqs'[i].dev = [id |-> DeviceId, label |-> DeviceLabel]
        /\ \A i \in AllIds :
              (reqs'[i].refresh.sends = reqs[i].refresh.sends + 1) =>
                 /\ accessToken' # Null => reqs'[i].refresh.hdr = accessToken'
                 /\ reqs'[i].refresh.dev = [id |-> DeviceId, label |-> DeviceLabel]
        /\ C20_InterceptorAttaches
      ]_vars

\* C20 witness: the bootstrap's refresh call is in flight without a token but
\* with the device headers, while the refresh call of the rejection handler
\* is in flight with the token the holder holds and the device headers.
C20_Witness ==
    /\ accessToken # Null
    /\ \E b \in BootIds :
          reqs[b].st = "sent" /\ reqs[b].hdr = Null /\ reqs[b].dev.id = DeviceId
    /\ \E i \in ReqIds :
          /\ reqs[i].st = "awaitRefresh"
          /\ reqs[i].refresh.hdr = accessToken
          /\ reqs[i].refresh.dev.id = DeviceId

\* C21: the refresh coordinator starts idle (flag false, queue empty) and has
\* no state it stays in: when every refresh call is eventually answered, a
\* coordinator that is refreshing becomes idle again and every queued request
\* is resumed; a request is queued only while the coordinator's refresh call
\* is unresolved.
C21_StartsIdle ==
    (\A i \in AllIds : reqs[i].st = "idle") => ~isRefreshing /\ refreshQueue = <<>>

C21_BlockedOnlyByRefresh ==
    \A j \in AllIds :
        reqs[j].st = "queued" => isRefreshing /\ CoordinatorRefreshCalls # {}

C21_ReturnsToIdle ==
    /\ []C21_StartsIdle
    /\ []C21_BlockedOnlyByRefresh
    /\ isRefreshing ~> (~isRefreshing /\ refreshQueue = <<>>)
    /\ \A j \in ReqIds : (reqs[j].st = "queued") ~> (reqs[j].st # "queued")

\* A refresh has ended and resumed a queued request: the coordinator is idle
\* again, the initiator and the waiter are both on their second flight.
C21_Witness ==
    /\ ~isRefreshing
    /\ refreshQueue = <<>>
    /\ \A j \in ReqIds : reqs[j].st = "sent" /\ reqs[j].retry /\ reqs[j].sends = 2
    /\ \A j \in ReqIds : reqs[j].hdr = accessToken

\* C22: when the logout handler finishes, the store's user and accessToken and
\* the token holder are all null: whether the logout call was answered, failed,
\* was replayed after a refresh, or its own refresh failed.
C22_LogoutClearsAll ==
    [][\A i \in ReqIds :
          reqs[i].url = LogoutUrl /\ reqs'[i].st = "settled"
          => store'.user = Null /\ store'.accessToken = Null /\ accessToken' = Null]_vars

\* A logout that drew a 401, was replayed after a refresh and was then
\* answered has finished.
C22_Witness ==
    /\ event.url = LogoutUrl
    /\ event.outcome = Resolved
    /\ reqs[event.id].retry
    /\ store.user = Null /\ store.accessToken = Null /\ accessToken = Null

\* The rejection handler of a request reaches its refresh path: it sets the
\* flag and awaits a refresh call, or pushes its callback.
C23_EntersRefreshPath ==
    \E i \in ReqIds :
        reqs[i].st = "sent" /\ reqs'[i].st \in {"awaitRefresh", "queued"}

\* The refresh call a rejection handler awaits settles.
C23_RefreshSettles ==
    \E i \in ReqIds : reqs[i].st = "awaitRefresh" /\ reqs'[i].st # "awaitRefresh"

\* The call of a bootstrap run, of the login form or of the logout button
\* settles: its caller runs setAuth or clearAuth.
C23_SessionCallSettles ==
    \E i \in AllIds :
        /\ Caller(i) \in {"bootstrap", "login", "logout"}
        /\ reqs[i].st # "settled" /\ reqs'[i].st = "settled"

\* A request leaves for the network for the first time.
C23_Sends == \E i \in AllIds : reqs[i].st = "idle" /\ reqs'[i].st = "sent"

\* C23 as stated: isRefreshing, refreshQueue and the token holder change only
\* in a step in which the refresh call of the rejection handler settles.
C23_OnlyRefreshSettleWrites ==
    [][(isRefreshing' # isRefreshing \/ refreshQueue' # refreshQueue
        \/ accessToken' # accessToken) => C23_RefreshSettles]_vars

\* C23: isRefreshing and refreshQueue change only in steps of the rejection
\* handler's refresh path (entering it, or its refresh call settling); the
\* token holder changes only when that refresh call settles or when the call
\* of a bootstrap run, a login or a logout settles; sending a request writes
\* none of the three.
C23_WritersOfSharedState ==
    [][/\ (isRefreshing' # isRefreshing \/ refreshQueue' # refreshQueue)
          => C23_EntersRefreshPath \/ C23_RefreshSettles
       /\ accessToken' # accessToken => C23_RefreshSettles \/ C23_SessionCallSettles
       /\ C23_Sends => UNCHANGED <<accessToken, isRefreshing, refreshQueue>>]_vars

\* The rejection handler has replaced the token the login stored: the holder
\* holds a token the store does not, and a replay carries it.
C23_Witness ==
    /\ accessToken # Null
    /\ store.accessToken # Null
    /\ accessToken # store.accessToken
    /\ ~isRefreshing
    /\ \E i \in ReqIds : reqs[i].st = "sent" /\ reqs[i].retry /\ reqs[i].hdr = accessToken

\* The token holder read after a write holds what was written.
C24_GetAfterSet ==
    \A token \in 0..MaxTok : getAccessToken(setAccessToken(accessToken, token)) = token

\* Before any request was made nothing has written the holder.
C24_NullAtStart == (\A i \in AllIds : reqs[i].st = "idle") => accessToken = Null

\* C24: the token holder is null at process start; getAccessToken() returns
\* the value of the most recent setAccessToken(): after the rejection handler
\* stored a new token the holder holds it and the replay reads it, after it
\* stored null the holder is null, and a request sent later attaches what
\* the holder holds; reading the holder does not change it.
C24_TokenHolderRoundTrip ==
    /\ []C24_NullAtStart
    /\ []C24_GetAfterSet
    /\ [][\A i \in AllIds :
            /\ reqs[i].st = "awaitRefresh" /\ reqs'[i].st = "sent"
               => accessToken' = issued' /\ reqs'[i].hdr = issued'
            /\ reqs[i].st = "awaitRefresh" /\ reqs'[i].st = "settled"
               => accessToken' = Null
            /\ reqs[i].st = "idle" /\ reqs'[i].st = "sent"
               => accessToken' = accessToken /\ reqs'[i].hdr = accessToken]_vars

\* A request made after the rejection handler stored a new token carries that
\* token, which the store does not hold.
C24_Witness ==
    /\ accessToken # Null
    /\ accessToken # store.accessToken
    /\ \E i \in ReqIds :
          reqs[i].st = "sent" /\ ~reqs[i].retry /\ reqs[i].hdr = accessToken

\* Every request in flight carries the identifier and the label the module
\* has cached, and a further call of getDeviceInfo would return the same.
C25_SameForEveryCall ==
    /\ \A i \in AllIds :
          reqs[i].st = "sent"
          => reqs[i].dev = [id |-> device.cachedDeviceId, label |-> device.cachedLabel]
    /\ device.cachedDeviceId # Null
       => /\ getDeviceInfo(TRUE).deviceId = device.cachedDeviceId
          /\ getDeviceInfo(TRUE).deviceLabel = device.cachedLabel
          /\ cacheDeviceInfo(cacheDeviceInfo(device)) = cacheDeviceInfo(device)

\* C25: in a browser every call of getDeviceInfo() of one page load returns
\* the same deviceId and deviceLabel; the first call takes the identifier the
\* storage holds, if it holds one, and generates none; otherwise it generates
\* one and stores it; generateId is called at most once.
C25_DeviceIdentityStable ==
    /\ [](device.generated <= 1)
    /\ []C25_SameForEveryCall
    /\ [][device.cachedDeviceId # Null
          => /\ device'.cachedDeviceId = device.cachedDeviceId
             /\ device'.cachedLabel = device.cachedLabel
             /\ device'.generated = device.generated]_vars
    /\ [][device.cachedDeviceId = Null /\ device'.cachedDeviceId # Null
          => IF device.storage # Null
             THEN /\ device'.cachedDeviceId = device.storage
                  /\ device'.storage = device.storage
                  /\ device'.generated = 0
             ELSE /\ device'.cachedDeviceId = generateId(0)
                  /\ device'.storage = device'.cachedDeviceId
                  /\ device'.generated = 1]_vars

\* The identifier of an earlier visit was taken from the storage, the storage
\* has since been cleared, and the login request in flight carries that
\* identifier; none was generated.
C25_Witness ==
    /\ device.cachedDeviceId = StoredId
    /\ device.storage = Null
    /\ device.generated = 0
    /\ \E i \in ReqIds : reqs[i].st = "sent" /\ reqs[i].dev.id = StoredId

\* The URLs the screens call, and a config without one.
C26_Urls ==
    {LoginUrl, RefreshUrl, LogoutUrl, MfaStatusUrl, MfaSetupUrl, StepUpVerifyUrl,
     SessionsUrl, OverviewUrl, NoUrl}

\* The URL contains the login, refresh, mfa or step-up path.
C26_NamesAuthPath(url) ==
    \E path \in {LoginPath, RefreshPath, MfaPath, StepUpPath} :
        Len(url) >= Len(path) /\ includes(url, path)

\* The rejection handler sends a 401 down the refresh path exactly for the
\* URLs that contain none of the four paths, when _retry is not set.
C26_Classified ==
    /\ \A url \in C26_Urls, retry \in BOOLEAN :
          branch(Unauthorized, url, retry) = "refreshPath"
          <=> ~C26_NamesAuthPath(url) /\ ~retry
    /\ ~C26_NamesAuthPath(LogoutUrl)
    /\ ~C26_NamesAuthPath(SessionsUrl)

\* C26: a 401 enters the refresh path (starts a refresh, or joins the one in
\* flight) if and only if the URL of the request contains none of the login,
\* refresh, mfa and step-up paths and _retry is not set; nothing but a 401
\* enters it; the 401 of a logout or sessions request not yet retried enters
\* it.
C26_RefreshPathExact ==
    [][/\ C26_Classified
       /\ \A i \in AllIds :
            /\ Deliver(i, Unauthorized)
               => /\ reqs'[i].st \in {"awaitRefresh", "queued"}
                     <=> ~C26_NamesAuthPath(reqs[i].url) /\ ~reqs[i].retry
                  /\ reqs[i].url \in {LogoutUrl, SessionsUrl} /\ ~reqs[i].retry
                     => reqs'[i].st = IF isRefreshing THEN "queued" ELSE "awaitRefresh"
            /\ reqs[i].st = "sent" /\ reqs'[i].st \in {"awaitRefresh", "queued"}
               => Deliver(i, Unauthorized)]_vars

\* The 401 of a logout request has joined the refresh that the 401 of a
\* sessions request started.
C26_Witness ==
    \E i, j \in ReqIds :
        /\ reqs[i].url = LogoutUrl /\ reqs[i].st = "queued"
        /\ reqs[j].url = SessionsUrl /\ reqs[j].st = "awaitRefresh"

\* C27: isRefreshing is true exactly when one refresh call of the rejection
\* handler is outstanding, and false whenever none is; the handlers that
\* await no refresh call have none in flight.
C27_FlagMirrorsRefreshCall ==
    /\ isRefreshing <=> Cardinality(CoordinatorRefreshCalls) = 1
    /\ ~isRefreshing <=> CoordinatorRefreshCalls = {}
    /\ \A i \in AllIds :
          reqs[i].refresh.sends = (IF i \in CoordinatorRefreshCalls THEN 1 ELSE 0)

\* A second refresh is in flight after the first one ended and its replay was
\* answered.
C27_Witness ==
    \E i, j \in ReqIds :
        /\ isRefreshing
        /\ CoordinatorRefreshCalls = {i}
        /\ reqs[i].refresh.sends = 1
        /\ reqs[j].st = "settled" /\ reqs[j].retry /\ reqs[j].sends = 2

\* C28 (as claimed): every request that leaves for the network, first flight
\* or replay, carries in Authorization the token the holder holds at that
\* moment, and no Authorization header when the holder is empty; so does
\* every refresh call of the rejection handler.
C28_NoStaleCredential ==
    [][\A i \in AllIds :
          /\ reqs[i].st # "sent" /\ reqs'[i].st = "sent"
             => reqs'[i].hdr = accessToken'
          /\ reqs[i].st # "awaitRefresh" /\ reqs'[i].st = "awaitRefresh"
             => reqs'[i].refresh.hdr = accessToken']_vars

\* A logical request is sent at most twice and its handler awaits at most one
\* refresh call; a request sent twice has _retry set.
C29_AtMostOneReplay ==
    \A j \in ReqIds :
        /\ reqs[j].sends <= 2
        /\ reqs[j].refresh.sends <= 1
        /\ reqs[j].sends = 2 => reqs[j].retry

\* C29: a logical request starts at most one refresh: a refresh call starts
\* only in the step that handles the 401 of a non-auth request whose _retry is
\* unset, that step sets _retry, and _retry is never unset; so the refresh
\* calls are at most as many as the non-auth requests that received a 401. A
\* request is replayed at most once, and the 401 of a replay is rejected.
C29_RefreshAmplificationBounded ==
    /\ []C29_AtMostOneReplay
    /\ [][\A j \in ReqIds :
            /\ reqs[j].retry => reqs'[j].retry
            /\ reqs'[j].refresh.sends > reqs[j].refresh.sends
               => /\ ~reqs[j].retry /\ reqs'[j].retry
                  /\ ~isAuthEndpoint(reqs[j].url)
                  /\ Deliver(j, Unauthorized)
                  /\ \A k \in ReqIds \ {j} : reqs'[k].refresh = reqs[k].refresh
            /\ reqs[j].retry /\ Deliver(j, Unauthorized)
               => /\ reqs'[j].st = "settled"
                  /\ CoordinatorRefreshCalls' = CoordinatorRefreshCalls
                  /\ \A k \in ReqIds : reqs'[k].sends = reqs[k].sends]_vars

\* Every request was replayed once; the 401 of the last replay was rejected
\* and started nothing.
C29_Witness ==
    /\ \A j \in ReqIds : reqs[j].st = "settled" /\ reqs[j].retry /\ reqs[j].sends = 2
    /\ event.outcome = Rejected("request", Unauthorized)
    /\ ~isRefreshing

\* C30 (as claimed): when a bootstrap run, a login or a logout finishes, and
\* when the refresh call of the rejection handler has succeeded or failed, the
\* accessToken of the store equals the token the holder holds (both null
\* included).
C30_StoreMatchesHolder ==
    [][C23_RefreshSettles \/ C23_SessionCallSettles
       => store'.accessToken = accessToken']_vars

\* C31 (as claimed): in every state after the bootstrap, a store that reports
\* a user goes with a token holder that holds a token; a failed refresh of
\* the rejection handler, which empties the holder, leaves no user reported.
C31_SessionLossVisible ==
    store.hasBootstrapped /\ store.user # Null => accessToken # Null

\* C32 (as claimed), at the step that follows the logout: the logout handler
\* has just finished and the token holder is empty; the next step leaves it
\* empty unless it is a login or a bootstrap that succeeds (setAuth), also
\* when it is the success of a refresh call of the rejection handler that was
\* in flight when the user logged out.
C32_LogoutIsFinal ==
    [][event.url = LogoutUrl /\ accessToken = Null
       => accessToken' = Null \/ store'.user # Null]_vars

\* C33 (as claimed): a bootstrap run of the page load whose refresh call
\* settles after a login has signed the user in leaves a user in the store
\* and a token in the holder, also when the refresh call fails.
C33_LoginSurvivesBootstrap ==
    [][\A b \in BootIds :
          /\ reqs[b].st = "sent" /\ reqs'[b].st = "settled"
          /\ store.user # Null /\ accessToken # Null
          => store'.user # Null /\ accessToken' # Null]_vars

\* C34: when the refresh call of a bootstrap run whose effect has been cleaned
\* up settles, answered or failed, the store and the token holder are left as
\* they were: the run calls neither setAuth nor clearAuth nor setLoading; nor
\* does the step touch the refresh state of the rejection handler.
C34_CancelledBootstrapInert ==
    [][\A b \in BootIds :
          reqs[b].cancelled /\ reqs[b].st = "sent" /\ reqs'[b].st = "settled"
          => /\ store' = store
             /\ accessToken' = accessToken
             /\ isRefreshing' = isRefreshing
             /\ refreshQueue' = refreshQueue]_vars

\* The refresh call of a run cleaned up before any run finished has been
\* answered with a token: the store still loads, has not bootstrapped and
\* holds no user, the holder is empty.
C34_Witness ==
    /\ event.id \in BootIds
    /\ event.outcome = Resolved
    /\ issued > 0
    /\ store.isLoading /\ ~store.hasBootstrapped /\ store.user = Null
    /\ accessToken = Null

\* C35: neither the protected layout nor the step-up page redirects to
\* /login while hasBootstrapped is false: not from their effects, and not from
\* the step-up form, whose request is in flight only after the bootstrap;
\* the protected content and the step-up form are rendered only when
\* hasBootstrapped is true, isLoading is false and the user is the super
\* admin.
C35_RouteGuard ==
    /\ layoutRedirectsToLogin => store.hasBootstrapped
    /\ stepUpRedirectsToLogin => store.hasBootstrapped
    /\ \A i \in ReqIds : reqs[i].url = StepUpVerifyUrl => store.hasBootstrapped
    /\ contentRendered
       => store.hasBootstrapped /\ ~store.isLoading /\ store.user = SuperAdmin
    /\ stepUpFormRendered
       => store.hasBootstrapped /\ ~store.isLoading /\ store.user = SuperAdmin
    /\ ~store.hasBootstrapped => ~contentRendered /\ ~stepUpFormRendered

\* A later run of the bootstrap is in flight while the user is signed in and
\* the step-up form has been submitted: the store is loading, so the content
\* is not rendered, and nothing redirects to /login.
C35_Witness ==
    /\ store.hasBootstrapped /\ store.isLoading /\ store.user = SuperAdmin
    /\ ~contentRendered /\ ~stepUpFormRendered
    /\ ~layoutRedirectsToLogin /\ ~stepUpRedirectsToLogin
    /\ \E i \in ReqIds : reqs[i].url = StepUpVerifyUrl /\ reqs[i].st = "sent"

\* C36: a login answered with mfaRequired moves the form to phase MFA and
\* leaves the store (user, accessToken, hasBootstrapped, isLoading) and the
\* token holder as they were, and no token is issued; a login changes the
\* store or the holder only when it is answered without mfaRequired, with the
\* token of that answer; the phase of the form never goes back from MFA to
\* PASSWORD.
C36_MfaRequiredIssuesNothing ==
    [][/\ \A i \in ReqIds :
            /\ SucceedMfaRequired(i)
               => /\ phase' = "MFA"
                  /\ store' = store
                  /\ accessToken' = accessToken
                  /\ issued' = issued
            /\ (/\ reqs[i].url = LoginUrl /\ reqs'[i].st = "settled"
                /\ (store' # store \/ accessToken' # accessToken))
               => /\ Succeed(i)
                  /\ phase' = phase
                  /\ accessToken' = issued' /\ store'.accessToken = issued'
                  /\ store'.user = SuperAdmin
       /\ phase = "MFA" => phase' = "MFA"]_vars

\* A login was answered with mfaRequired before the bootstrap finished: the
\* form is in phase MFA, nobody is signed in and hasBootstrapped is false.
C36_Witness ==
    /\ phase = "MFA"
    /\ event.url = LoginUrl /\ event.outcome = Resolved
    /\ store.user = Null /\ store.accessToken = Null /\ accessToken = Null
    /\ ~store.hasBootstrapped
    /\ issued = 0

====
